---------------------------- MODULE Spec2Model ----------------------------
(***************************************************************************)
(* The render / evaluation loop of src/www/index.js: the start-up code     *)
(* (canvas sizing, first snapshot), the drawing primitives and redraw(),   *)
(* the animation-frame callback that fetches a world snapshot, reports     *)
(* fitness statistics on the last step of a generation, advances the       *)
(* engine, draws the snapshot and re-schedules itself.                     *)
(*                                                                         *)
(* Units.  Simulation coordinates (x, y in [0,1]) are held in thousandths  *)
(* (0 .. 1000).  Pixel quantities are held in thousandths of a logical     *)
(* pixel, so that x * viewportWidth needs no division.  Angles are held    *)
(* in steps of 30 degrees (PI / 6); Math.sin and Math.cos are tabulated in *)
(* thousandths at those angles.  A quotient of two numbers is held as the  *)
(* reduced fraction <<num, den>>; NaN (0 / 0) is <<0, 0>>.                 *)
(***************************************************************************)
EXTENDS Integers, Sequences, FiniteSets

VARIABLES
  simulation,       \* the engine object of line 3 (lib-simulation-wasm)
  world,            \* the module-level snapshot of line 4
  viewport,         \* the canvas element: width, height, style.width, style.height
  viewportWidth,    \* line 7
  viewportHeight,   \* line 8
  viewportScale,    \* line 10
  ctxt,             \* the 2d context: its scale transform
  started,          \* whether lines 79-80 have run
  pending,          \* animation-frame callbacks requested and not yet invoked
  calls,            \* the calls made by the most recent invocation of redraw, in order
  cycles,           \* invocations of redraw begun
  completed         \* invocations of redraw that returned normally

vars == <<simulation, world, viewport, viewportWidth, viewportHeight,
          viewportScale, ctxt, started, pending, calls, cycles, completed>>

---------------------------------------------------------------------------
(* Bounds of the model *)

MaxCycles == 3

MaxAnimals == 3

MaxFitness == 5

---------------------------------------------------------------------------
(* Arithmetic helpers *)

RECURSIVE Gcd(_, _)
Gcd(a, b) == IF b = 0 THEN a ELSE Gcd(b, a % b)

NaN == <<0, 0>>

Infinity == <<1, 0>>

\* JavaScript's a / b for non-negative integers a, b.
Divide(a, b) ==
  IF b = 0 THEN (IF a = 0 THEN NaN ELSE Infinity)
  ELSE LET g == Gcd(a, b) IN <<a \div g, b \div g>>

IsNumber(q) == q[2] > 0

\* Math.max
Max(a, b) == IF a >= b THEN a ELSE b

\* Math.sin and Math.cos, in thousandths, of an angle of r steps of 30 degrees.
SinTable == <<0, 500, 866, 1000, 866, 500, 0, -500, -866, -1000, -866, -500>>

Sin(r) == SinTable[(r % 12) + 1]

Cos(r) == Sin(r + 3)

\* The product of a table value (thousandths) and a length (thousandths of a pixel).
Times(t, len) == (t * len) \div 1000

---------------------------------------------------------------------------
(* The engine, as far as index.js consumes it *)

\* simulation.world(): a fresh copy of the engine's animals and foods.
SimWorld(sim) == [animals |-> sim.animals, foods |-> sim.foods]

\* simulation.is_last_run()
SimIsLastRun(sim) == sim.lastRun

\* simulation.generation()
SimGeneration(sim) == sim.generation

\* simulation.step(): one tick; nx is the engine's choice of what it holds next.
\* The generation counter is incremented exactly at a boundary.
SimStep(sim, nx) ==
  [ticks      |-> sim.ticks + 1,
   generation |-> IF sim.lastRun THEN sim.generation + 1 ELSE sim.generation,
   lastRun    |-> nx.lastRun,
   animals    |-> nx.animals,
   foods      |-> nx.foods]

\* What step() may leave the engine holding, when it holds the same as before.
Same(sim) == [animals |-> sim.animals, foods |-> sim.foods, lastRun |-> sim.lastRun]

---------------------------------------------------------------------------
(* Start-up: lines 6-17 *)

\* The canvas as laid out by the page is w x h; dpr is window.devicePixelRatio
\* (0 stands for an absent or zero ratio, which "|| 1" replaces by 1).
ViewportInit(w, h, dpr) ==
  LET scale == IF dpr = 0 THEN 1 ELSE dpr
  IN [viewportWidth  |-> w,
      viewportHeight |-> h,
      viewportScale  |-> scale,
      viewport       |-> [width |-> w * scale, height |-> h * scale,
                          styleWidth |-> w, styleHeight |-> h],
      ctxt           |-> [scale |-> scale]]

---------------------------------------------------------------------------
(* Drawing primitives: lines 19-40.  Each yields the call it makes on the   *)
(* context; a triangle's path is moveTo, lineTo, lineTo, lineTo.            *)

\* Variant: the y offsets subtracted instead of added (the apex towards smaller y).
drawTriangleFlipped(x, y, size, rotation) ==
  [op       |-> "drawTriangle",
   x        |-> x,
   y        |-> y,
   size     |-> size,
   rotation |-> rotation,
   path     |-> << <<x - Times(Sin(rotation), 1500),  y - Times(Cos(rotation), 1500)>>,
                   <<x - Times(Sin(rotation + 4), size), y - Times(Cos(rotation + 4), size)>>,
                   <<x - Times(Sin(rotation + 8), size), y - Times(Cos(rotation + 8), size)>>,
                   <<x - Times(Sin(rotation), 1500),  y - Times(Cos(rotation), 1500)>> >>]

drawTriangle(x, y, size, rotation) ==
  [op       |-> "drawTriangle",
   x        |-> x,
   y        |-> y,
   size     |-> size,
   rotation |-> rotation,
   path     |-> << <<x - Times(Sin(rotation), 1500),  y + Times(Cos(rotation), 1500)>>,
                   <<x - Times(Sin(rotation + 4), size), y + Times(Cos(rotation + 4), size)>>,
                   <<x - Times(Sin(rotation + 8), size), y + Times(Cos(rotation + 8), size)>>,
                   <<x - Times(Sin(rotation), 1500),  y + Times(Cos(rotation), 1500)>> >>]

drawCircle(x, y, radius) ==
  [op |-> "drawCircle", x |-> x, y |-> y, radius |-> radius]

---------------------------------------------------------------------------
(* redraw: lines 42-77, as the phases it runs in order.  A phase takes and  *)
(* yields the invocation's context: the engine, the local constant world,   *)
(* the calls made so far, whether an exception is propagating, and the      *)
(* number of animation frames requested.  An exception thrown by the engine *)
(* propagates out of redraw, so every later phase is skipped.               *)

NoWorld == [animals |-> <<>>, foods |-> <<>>]

\* The(S) is the element of a one-element set.  redraw runs its phases in order:
\* {Phase(c) : c \in {d}} is {Phase(d)}, with d computed once.
The(S) == CHOOSE c \in S : TRUE

Enter(sim) ==
  [simulation |-> sim, world |-> NoWorld, calls |-> <<>>,
   thrown |-> FALSE, scheduled |-> 0]

Throw(c, from) ==
  [c EXCEPT !.thrown = TRUE,
            !.calls = Append(@, [op |-> "throw", from |-> from])]

\* line 43
Clear(c) ==
  IF c.thrown THEN c
  ELSE [c EXCEPT !.calls = Append(@, [op |-> "clearRect",
                                      args |-> <<0, 0, viewportWidth, viewportHeight>>])]

\* line 44
Fetch(c, fault) ==
  IF c.thrown THEN c
  ELSE IF fault = "world" THEN Throw(c, "world")
  ELSE [c EXCEPT !.world = SimWorld(c.simulation),
                 !.calls = Append(@, [op |-> "world", ret |-> SimWorld(c.simulation)])]

\* lines 46-52: the sum and the running maximum over the animals, then the division.
RECURSIVE Accumulate(_, _, _, _)
Accumulate(animals, i, avg_fitness, max_fitness) ==
  IF i > Len(animals)
  THEN [avg_fitness |-> Divide(avg_fitness, Len(animals)), max_fitness |-> max_fitness]
  ELSE Accumulate(animals, i + 1, avg_fitness + animals[i].fitness,
                  Max(max_fitness, animals[i].fitness))

\* Variant: the loop starts at the second animal.
SummarizeSkipFirst(animals) == Accumulate(animals, 2, 0, 0)

Summarize(animals) == Accumulate(animals, 1, 0, 0)

\* Variant: an empty population is signalled by throwing.
ReportThrowsOnEmpty(c) ==
  IF c.thrown THEN c
  ELSE LET flag == SimIsLastRun(c.simulation)
           asked == Append(c.calls, [op |-> "is_last_run", ret |-> flag])
           stats == Summarize(c.world.animals)
       IN IF flag /\ c.world.animals = <<>>
          THEN Throw([c EXCEPT !.calls = asked], "summarize")
          ELSE IF flag
          THEN [c EXCEPT !.calls =
                  asked \o << [op |-> "generation", ret |-> SimGeneration(c.simulation)],
                              [op |-> "log",
                               generation  |-> SimGeneration(c.simulation),
                               avg_fitness |-> stats.avg_fitness,
                               max_fitness |-> stats.max_fitness] >>]
          ELSE [c EXCEPT !.calls = asked]

\* lines 45-54
Report(c) ==
  IF c.thrown THEN c
  ELSE LET flag == SimIsLastRun(c.simulation)
           asked == Append(c.calls, [op |-> "is_last_run", ret |-> flag])
           stats == Summarize(c.world.animals)
       IN IF flag
          THEN [c EXCEPT !.calls =
                  asked \o << [op |-> "generation", ret |-> SimGeneration(c.simulation)],
                              [op |-> "log",
                               generation  |-> SimGeneration(c.simulation),
                               avg_fitness |-> stats.avg_fitness,
                               max_fitness |-> stats.max_fitness] >>]
          ELSE [c EXCEPT !.calls = asked]

\* line 55
Advance(c, fault, nx) ==
  IF c.thrown THEN c
  ELSE IF fault = "step" THEN Throw(c, "step")
  ELSE [c EXCEPT !.simulation = SimStep(c.simulation, nx),
                 !.calls = Append(@, [op |-> "step"])]

\* Variant: the canvas's resized backing-store size is used for the mapping.
DrawFoodsBackingStore(c) ==
  IF c.thrown THEN c
  ELSE [c EXCEPT !.calls = @ \o
          [i \in 1..Len(c.world.foods) |->
             drawCircle(c.world.foods[i].x * viewport.width,
                        c.world.foods[i].y * viewport.height,
                        3 * viewportWidth)]]

\* lines 57-64
DrawFoods(c) ==
  IF c.thrown THEN c
  ELSE [c EXCEPT !.calls = @ \o
          [i \in 1..Len(c.world.foods) |->
             drawCircle(c.world.foods[i].x * viewportWidth,
                        c.world.foods[i].y * viewportHeight,
                        3 * viewportWidth)]]

\* Variant: the module-level snapshot of line 4 is drawn instead of the local one.
DrawAnimalsStale(c) ==
  IF c.thrown THEN c
  ELSE [c EXCEPT !.calls = @ \o
          [i \in 1..Len(world.animals) |->
             drawTriangle(world.animals[i].x * viewportWidth,
                          world.animals[i].y * viewportHeight,
                          10 * viewportWidth,
                          world.animals[i].rotation)]]

\* lines 66-74
DrawAnimals(c) ==
  IF c.thrown THEN c
  ELSE [c EXCEPT !.calls = @ \o
          [i \in 1..Len(c.world.animals) |->
             drawTriangle(c.world.animals[i].x * viewportWidth,
                          c.world.animals[i].y * viewportHeight,
                          10 * viewportWidth,
                          c.world.animals[i].rotation)]]

\* Variant: the next frame is requested in a finally block, also when throwing.
ScheduleAlways(c) ==
  [c EXCEPT !.scheduled = @ + 1,
            !.calls = IF c.thrown THEN @ ELSE Append(@, [op |-> "requestAnimationFrame"])]

\* Variant: the next frame is requested twice.
ScheduleTwice(c) ==
  IF c.thrown THEN c
  ELSE [c EXCEPT !.scheduled = @ + 2,
                 !.calls = @ \o << [op |-> "requestAnimationFrame"],
                                   [op |-> "requestAnimationFrame"] >>]

\* line 76
Schedule(c) ==
  IF c.thrown THEN c
  ELSE [c EXCEPT !.scheduled = @ + 1,
                 !.calls = Append(@, [op |-> "requestAnimationFrame"])]

\* Variant: the engine is stepped before the snapshot is fetched.
redrawStepFirst(sim, fault, nx) ==
  The({Schedule(c6) : c6 \in
       {DrawAnimals(c5) : c5 \in
       {DrawFoods(c4) : c4 \in
       {Report(c3) : c3 \in
       {Fetch(c2, fault) : c2 \in
       {Advance(c1, fault, nx) : c1 \in
       {Clear(c0) : c0 \in
       {Enter(sim)}}}}}}}})

\* Variant: the boundary is checked and reported after the step.
redrawReportLate(sim, fault, nx) ==
  The({Schedule(c6) : c6 \in
       {DrawAnimals(c5) : c5 \in
       {DrawFoods(c4) : c4 \in
       {Report(c3) : c3 \in
       {Advance(c2, fault, nx) : c2 \in
       {Fetch(c1, fault) : c1 \in
       {Clear(c0) : c0 \in
       {Enter(sim)}}}}}}}})

redraw(sim, fault, nx) ==
  The({Schedule(c6) : c6 \in
       {DrawAnimals(c5) : c5 \in
       {DrawFoods(c4) : c4 \in
       {Advance(c3, fault, nx) : c3 \in
       {Report(c2) : c2 \in
       {Fetch(c1, fault) : c1 \in
       {Clear(c0) : c0 \in
       {Enter(sim)}}}}}}}})

---------------------------------------------------------------------------
(* Inputs *)

\* Sequences over S of length at most n.
SeqUpTo(S, n) == UNION {[1..k -> S] : k \in 0..n}

\* Canvas sizes as laid out by the page (multiples of 100, so that 0.01 * width
\* and 0.003 * width are whole thousandths), and device pixel ratios.
CanvasSizes == {<<400, 300>>}

PixelRatios == {0, 1, 2}

CoordValues == {0, 500, 1000}

Rotations == 0..11

Faults == {"none", "world", "step"}

\* The populations an engine may hold: two animals of different pose and fitness.
Animal4 == [x |-> 0, y |-> 0, rotation |-> 0, fitness |-> 4]

Animal8 == [x |-> 1000, y |-> 1000, rotation |-> 3, fitness |-> 8]

Herds == {<<>>, <<Animal4>>, <<Animal4, Animal8>>}

FoodLists == {<<>>, <<[x |-> 0, y |-> 0], [x |-> 1000, y |-> 500]>>}

\* What a step may leave the engine holding.
EngineNext == [animals : Herds, foods : FoodLists, lastRun : BOOLEAN]

\* The populations of the stub engine: every list of fitness values, and every pose.
FitnessHerds ==
  SeqUpTo({[x |-> 500, y |-> 500, rotation |-> 0, fitness |-> f] : f \in 0..MaxFitness},
          MaxAnimals)

PoseHerds ==
  {<<[x |-> x, y |-> y, rotation |-> r, fitness |-> 0]>> :
     x \in CoordValues, y \in CoordValues, r \in Rotations}

---------------------------------------------------------------------------
(* The state after lines 1-17 *)

InitWith(herds, foodLists) ==
  /\ \E size \in CanvasSizes, dpr \in PixelRatios :
       LET v == ViewportInit(size[1], size[2], dpr)
       IN /\ viewport = v.viewport
          /\ viewportWidth = v.viewportWidth
          /\ viewportHeight = v.viewportHeight
          /\ viewportScale = v.viewportScale
          /\ ctxt = v.ctxt
  /\ \E a \in herds, f \in foodLists, last \in BOOLEAN :
       simulation = [ticks |-> 0, generation |-> 0, lastRun |-> last,
                     animals |-> a, foods |-> f]
  /\ world = SimWorld(simulation)
  /\ started = FALSE
  /\ pending = 0
  /\ calls = <<>>
  /\ cycles = 0
  /\ completed = 0

Init == InitWith(Herds, FoodLists)

StubInit == InitWith(FitnessHerds \cup PoseHerds, {<<>>})

---------------------------------------------------------------------------
(* Actions *)

\* One invocation of redraw; taken is 1 when the host consumed a requested frame.
Invoke(taken, fault, nx) ==
  LET r == redraw(simulation, fault, nx)
  IN /\ simulation' = r.simulation
     /\ calls' = r.calls
     /\ pending' = (pending - taken) + r.scheduled
     /\ cycles' = cycles + 1
     /\ completed' = IF r.thrown THEN completed ELSE completed + 1
     /\ UNCHANGED <<world, viewport, viewportWidth, viewportHeight, viewportScale, ctxt>>

\* The engine's choices in an invocation: none are made when a call fails.
Choices(fault) == IF fault = "none" THEN EngineNext ELSE {Same(simulation)}

\* lines 79-80: the module's own call of redraw.
Start ==
  /\ ~started
  /\ started' = TRUE
  /\ \E fault \in Faults : \E nx \in Choices(fault) : Invoke(0, fault, nx)

\* The host invokes a requested animation-frame callback.
Frame ==
  /\ started
  /\ pending > 0
  /\ cycles < MaxCycles
  /\ UNCHANGED started
  /\ \E fault \in Faults : \E nx \in Choices(fault) : Invoke(1, fault, nx)

Next == Start \/ Frame

Spec == Init /\ [][Next]_vars

\* The same program over a stub engine: it never fails, and a step leaves it
\* holding what it held.
StubStart ==
  /\ ~started
  /\ started' = TRUE
  /\ Invoke(0, "none", Same(simulation))

StubFrame ==
  /\ started
  /\ pending > 0
  /\ cycles < MaxCycles
  /\ UNCHANGED started
  /\ Invoke(1, "none", Same(simulation))

StubNext == StubStart \/ StubFrame

StubSpec == StubInit /\ [][StubNext]_vars

\* The program over an engine that never fails, with a host that keeps invoking
\* requested frames; the module's own call of redraw always runs.
SoundHerds == {<<>>, <<Animal4, Animal8>>}

SoundNextWorlds == [animals : SoundHerds, foods : FoodLists, lastRun : BOOLEAN]

SoundInit == InitWith(SoundHerds, FoodLists)

SoundStart ==
  /\ ~started
  /\ started' = TRUE
  /\ \E nx \in SoundNextWorlds : Invoke(0, "none", nx)

SoundFrame ==
  /\ started
  /\ pending > 0
  /\ cycles < MaxCycles
  /\ UNCHANGED started
  /\ \E nx \in SoundNextWorlds : Invoke(1, "none", nx)

SoundNext == SoundStart \/ SoundFrame

FairSpec == SoundInit /\ [][SoundNext]_vars /\ WF_vars(SoundStart) /\ WF_vars(SoundFrame)

---------------------------------------------------------------------------
(* Reading the calls of an invocation *)

Ops(cs, op) == SelectSeq(cs, LAMBDA e : e.op = op)

Count(cs, op) == Len(Ops(cs, op))

\* The place of the first call of op in cs.
IndexOf(cs, op) == CHOOSE i \in 1..Len(cs) : cs[i].op = op /\ \A j \in 1..(i - 1) : cs[j].op # op

ThrownIn(cs) == cs # <<>> /\ cs[Len(cs)].op = "throw"

ReturnedIn(cs) == cs # <<>> /\ cs[Len(cs)].op # "throw"

DrawnIn(cs) == SelectSeq(cs, LAMBDA e : e.op \in {"drawCircle", "drawTriangle"})

\* The snapshot the invocation fetched.
FetchedIn(cs) == Ops(cs, "world")[1].ret

\* The draw calls that show snapshot w on this canvas.
ShapesOf(w) ==
  [i \in 1..Len(w.foods) |->
     drawCircle(w.foods[i].x * viewportWidth, w.foods[i].y * viewportHeight,
                3 * viewportWidth)]
  \o
  [i \in 1..Len(w.animals) |->
     drawTriangle(w.animals[i].x * viewportWidth, w.animals[i].y * viewportHeight,
                  10 * viewportWidth, w.animals[i].rotation)]

RECURSIVE SumFitness(_)
SumFitness(animals) ==
  IF animals = <<>> THEN 0 ELSE Head(animals).fitness + SumFitness(Tail(animals))

---------------------------------------------------------------------------
(* Claims *)

\* C1: in every invocation of redraw that returns, the snapshot is fetched before
\* step() is called, it is the engine's state as it was before that step, and the
\* foods and animals drawn are those of that pre-step state; the k-th invocation
\* starts from an engine that has been stepped k - 1 times.
SnapshotBeforeStep ==
  [][(cycles' = cycles + 1 /\ ReturnedIn(calls')) =>
       /\ Count(calls', "world") >= 1
       /\ IndexOf(calls', "world") < IndexOf(calls', "step")
       /\ FetchedIn(calls') = SimWorld(simulation)
       /\ DrawnIn(calls') = ShapesOf(SimWorld(simulation))
       /\ simulation.ticks = cycles
       /\ simulation'.ticks = cycles']_vars

\* A later frame has drawn a snapshot that differs from what the engine holds
\* after the step.
SnapshotBeforeStepWitness ==
  /\ cycles >= 2
  /\ ReturnedIn(calls)
  /\ DrawnIn(calls) # <<>>
  /\ FetchedIn(calls) # SimWorld(simulation)

\* C2: every invocation fetches at most one snapshot (exactly one unless the fetch
\* fails); a report made in it is computed from that snapshot, and what it draws
\* is that snapshot, not one of another invocation or of start-up.
OneSnapshotPerCycle ==
  calls # <<>> =>
    /\ Count(calls, "world") <= 1
    /\ Count(calls, "log") > 0 =>
         /\ Count(calls, "world") = 1
         /\ \A i \in 1..Len(calls) : calls[i].op = "log" =>
              /\ calls[i].avg_fitness = Summarize(FetchedIn(calls).animals).avg_fitness
              /\ calls[i].max_fitness = Summarize(FetchedIn(calls).animals).max_fitness
    /\ ReturnedIn(calls) =>
         /\ Count(calls, "world") = 1
         /\ DrawnIn(calls) = ShapesOf(FetchedIn(calls))

\* A boundary invocation has reported on and drawn a snapshot that differs from
\* the one fetched at start-up.
OneSnapshotPerCycleWitness ==
  /\ cycles >= 2
  /\ ReturnedIn(calls)
  /\ Count(calls, "log") = 1
  /\ DrawnIn(calls) # <<>>
  /\ FetchedIn(calls) # world
  /\ ShapesOf(FetchedIn(calls)) # ShapesOf(world)

\* C3: an invocation that finds is_last_run() true makes exactly one report, of the
\* generation index and the statistics of the engine as it was before the step,
\* and makes it before step() is called; one that finds it false, or never asks,
\* makes none.
ReportAtBoundary ==
  [][cycles' = cycles + 1 =>
       LET asked == Ops(calls', "is_last_run")
           logs  == Ops(calls', "log")
       IN /\ Len(asked) <= 1
          /\ \A i \in 1..Len(asked) : asked[i].ret = simulation.lastRun
          /\ IF Len(asked) = 1 /\ asked[1].ret
             THEN /\ logs = << [op          |-> "log",
                                generation  |-> simulation.generation,
                                avg_fitness |-> Summarize(simulation.animals).avg_fitness,
                                max_fitness |-> Summarize(simulation.animals).max_fitness] >>
                  /\ Count(calls', "step") > 0 =>
                       IndexOf(calls', "log") < IndexOf(calls', "step")
             ELSE logs = <<>>]_vars

\* Generation 1 with fitnesses 4 and 8: the report (1, 6, 8), then the step.
ReportAtBoundaryWitness ==
  /\ Count(calls, "world") = 1
  /\ FetchedIn(calls).animals = <<Animal4, Animal8>>
  /\ Ops(calls, "log") = << [op |-> "log", generation |-> 1,
                             avg_fitness |-> <<6, 1>>, max_fitness |-> 8] >>
  /\ Count(calls, "step") = 1
  /\ IndexOf(calls, "log") < IndexOf(calls, "step")

\* C4: the report of a boundary invocation whose snapshot has no animals carries
\* neither NaN nor a silent zero as its average.
EmptyPopulationSignalled ==
  \A i \in 1..Len(calls) :
    (calls[i].op = "log" /\ FetchedIn(calls).animals = <<>>) =>
      calls[i].avg_fitness \notin {NaN, <<0, 1>>}

\* C5: an invocation in which the engine throws draws nothing, requests no frame
\* and leaves none requested; after it no invocation ever runs.
FaultStopsChain ==
  [][/\ (cycles' = cycles + 1 /\ ThrownIn(calls')) =>
          /\ DrawnIn(calls') = <<>>
          /\ Count(calls', "requestAnimationFrame") = 0
          /\ pending' = 0
     /\ ThrownIn(calls) => cycles' = cycles]_vars

\* The engine has failed in a later frame, with cycles left to run.
FaultStopsChainWitness ==
  /\ ThrownIn(calls)
  /\ cycles >= 2
  /\ cycles < MaxCycles
  /\ pending = 0

\* C6: the report over a non-empty population carries the sum of the fitness
\* values divided by their number, and the largest of them.
FitnessStatistics ==
  \A i \in 1..Len(calls) :
    (calls[i].op = "log" /\ FetchedIn(calls).animals # <<>>) =>
      LET animals == FetchedIn(calls).animals
          avg     == calls[i].avg_fitness
          max     == calls[i].max_fitness
      IN /\ IsNumber(avg)
         /\ avg[1] * Len(animals) = SumFitness(animals) * avg[2]
         /\ \E k \in 1..Len(animals) : animals[k].fitness = max
         /\ \A k \in 1..Len(animals) : animals[k].fitness <= max

\* Fitnesses 2, 5, 3: average 10/3, maximum 5.
FitnessStatisticsWitness ==
  /\ Count(calls, "log") = 1
  /\ [k \in 1..Len(FetchedIn(calls).animals) |-> FetchedIn(calls).animals[k].fitness]
       = <<2, 5, 3>>
  /\ Ops(calls, "log")[1].avg_fitness = <<10, 3>>
  /\ Ops(calls, "log")[1].max_fitness = 5

DrawnAtLogicalPixels ==
  ReturnedIn(calls) =>
    LET w         == FetchedIn(calls)
        circles   == Ops(calls, "drawCircle")
        triangles == Ops(calls, "drawTriangle")
    IN /\ Len(circles) = Len(w.foods)
       /\ Len(triangles) = Len(w.animals)
       /\ \A i \in 1..Len(circles) :
            /\ circles[i].x = w.foods[i].x * viewport.styleWidth
            /\ circles[i].y = w.foods[i].y * viewport.styleHeight
       /\ \A i \in 1..Len(triangles) :
            /\ triangles[i].x = w.animals[i].x * viewport.styleWidth
            /\ triangles[i].y = w.animals[i].y * viewport.styleHeight

\* On a canvas whose backing store was doubled, a food at (0,0) is drawn at (0,0)
\* and an animal at (1,1) at (logical width, logical height).
DrawnAtLogicalPixelsWitness ==
  /\ ReturnedIn(calls)
  /\ viewport.width = 2 * viewport.styleWidth
  /\ \E i \in 1..Len(calls) :
       calls[i].op = "drawCircle" /\ calls[i].x = 0 /\ calls[i].y = 0
  /\ \E i \in 1..Len(calls) :
       /\ calls[i].op = "drawTriangle"
       /\ calls[i].x = 1000 * viewport.styleWidth
       /\ calls[i].y = 1000 * viewport.styleHeight
  /\ Animal8 \in {FetchedIn(calls).animals[k] : k \in 1..Len(FetchedIn(calls).animals)}

\* C9: at most one frame is requested at any time; an invocation that returns has
\* called step() once and requested one frame, as its last call; the engine has
\* been stepped once per invocation that returned, and an invocation begins only
\* when every earlier one has returned.
SequentialCycles ==
  /\ pending \in {0, 1}
  /\ simulation.ticks = completed
  /\ cycles \in {completed, completed + 1}
  /\ ReturnedIn(calls) =>
       /\ Count(calls, "step") = 1
       /\ Count(calls, "requestAnimationFrame") = 1
       /\ calls[Len(calls)].op = "requestAnimationFrame"
       /\ pending = 1
       /\ cycles = completed

\* Several invocations have returned, and the next is requested.
SequentialCyclesWitness ==
  /\ completed >= 2
  /\ simulation.ticks = completed
  /\ pending = 1

\* C10: with an engine that does not fail and a host that invokes requested
\* frames, every invocation is followed by another (up to the model's bound).
NextCycleRuns ==
  \A n \in 0..(MaxCycles - 1) : (cycles = n) ~> (cycles = n + 1)

\* A second invocation has returned after a boundary invocation over an empty
\* population: the first invocation's snapshot is that of start-up, and the
\* generation index has moved although the second invocation found no boundary.
NextCycleRunsWitness ==
  /\ cycles = 2
  /\ ReturnedIn(calls)
  /\ world.animals = <<>>
  /\ simulation.generation = 1
  /\ Count(calls, "log") = 0

=============================================================================
